---- MODULE Spec2Model ----
(***************************************************************************)
(* A model of examples/text_classification/tc_mnli_transformers.ipynb: the *)
(* notebook that splits and samples the MultiNLI sentences, encodes the    *)
(* genre labels and fine-tunes and evaluates a list of pretrained models.  *)
(*                                                                         *)
(* The notebook is run from top to bottom (papermill, "Run All"): each     *)
(* code line is one step, and a step that raises ends the run, since the   *)
(* notebook holds no try/except.  Numbers that Python holds as floats are  *)
(* kept as exact quotients <<numerator, denominator>>; the fractions the   *)
(* model draws (-1/2, 0, 1/2, 3/4, 1, 3/2) are exact in binary.            *)
(***************************************************************************)
EXTENDS Integers, Sequences, FiniteSets, TLC

\* Bounds of the model.
NumRows == 4
MaxModels == 2

\* ------------------------------------------------------------------ inputs

\* MODEL_NAMES draws its identifiers from two of the names of line 72.
ModelNameSet == {"distilbert-base-uncased", "roberta-base"}

\* TRAIN_SIZE (line 69) and the two sampling fractions (lines 67-68).
TrainSizes == {<<0, 1>>, <<1, 2>>, <<3, 4>>, <<1, 1>>}
DataFractions == {<<-1, 2>>, <<0, 1>>, <<1, 2>>, <<1, 1>>, <<3, 2>>}

\* Timer.interval, in seconds.
Intervals == {1, 2}

\* The genres of the dataset in lexical order (np.unique sorts).
GenreOrder == <<"fiction", "government", "slate", "telephone", "travel">>

\* The index the rows keep from the unfiltered table (df.head(), then on).
RowIndex == <<0, 4, 6, 12, 13, 17, 20>>

\* RandomState(0).permutation(n), the shuffle train_test_split draws with
\* random_state=0 (0-based positions).
Permutation0(n) ==
    CASE n = 0 -> <<>>
      [] n = 1 -> <<0>>
      [] n = 2 -> <<1, 0>>
      [] n = 3 -> <<2, 1, 0>>
      [] n = 4 -> <<2, 3, 1, 0>>
      [] n = 5 -> <<2, 0, 1, 3, 4>>
      [] n = 6 -> <<5, 2, 1, 3, 0, 4>>
      [] n = 7 -> <<6, 2, 1, 3, 0, 5, 4>>

\* ----------------------------------------------------------------- helpers

Range(s) == {s[k] : k \in DOMAIN s}

SeqsUpTo(S, n) == UNION {[1..k -> S] : k \in 0..n}

\* The sequences of n distinct positions of 1..m.
Arrangements(n, m) ==
    {s \in [1..n -> 1..m] : \A a, b \in 1..n : a # b => s[a] # s[b]}

\* Python 3 round(num / den) for num >= 0: half to even.
Round(num, den) ==
    LET q == num \div den
        r == num % den
    IN  IF 2 * r < den THEN q
        ELSE IF 2 * r > den THEN q + 1
        ELSE IF q % 2 = 0 THEN q ELSE q + 1

Floor(num, den) == num \div den

Genres(dframe) == {dframe[k].genre : k \in DOMAIN dframe}

Sentences(dframe) == {dframe[k].sentence1 : k \in DOMAIN dframe}

\* DataFrame.reset_index(drop=True): the old index is replaced by 0..n-1.
ResetIndex(dframe) ==
    [k \in DOMAIN dframe |-> [dframe[k] EXCEPT !.index = k - 1]]

\* ------------------------------------------------------------------- state

VARIABLES
    TRAIN_SIZE, TRAIN_DATA_FRACTION, TEST_DATA_FRACTION, MODEL_NAMES,
    df, df_train, df_test,
    classes_, num_labels,
    results, it, model_name,
    processor, train_dataloader, test_dataloader, classifier,
    train_time, preds, accuracy, class_report,
    df_results, scraps,
    pc, error, log,
    prior

params == <<TRAIN_SIZE, TRAIN_DATA_FRACTION, TEST_DATA_FRACTION, MODEL_NAMES>>
frames == <<df, df_train, df_test>>
encoder == <<classes_, num_labels>>
loopvars == <<it, model_name>>
adapters == <<processor, train_dataloader, test_dataloader, classifier>>
metrics == <<train_time, preds, accuracy, class_report>>
report == <<df_results, scraps>>

vars == <<params, frames, encoder, results, loopvars, adapters, metrics,
          report, pc, error, log, prior>>

NoError == [at |-> "", pos |-> 0, exc |-> ""]

NoFrame == [columns |-> <<>>, index |-> <<>>, values |-> <<>>]

\* The table load_pandas_df returns, filtered to the neutral pairs: row k
\* has its own sentence; the genre column is one of a few small columns.
Dataset(t) ==
    [k \in 1..NumRows |->
        [index |-> RowIndex[k], sentence1 |-> k,
         genre |-> IF k = t THEN "travel" ELSE "government"]]

Init ==
    /\ TRAIN_SIZE \in TrainSizes
    /\ TRAIN_DATA_FRACTION \in DataFractions
    /\ TEST_DATA_FRACTION \in DataFractions
    /\ MODEL_NAMES \in SeqsUpTo(ModelNameSet, MaxModels)
    /\ \E t \in 0..NumRows : df = Dataset(t)
    /\ df_train = <<>>
    /\ df_test = <<>>
    /\ classes_ = <<>>
    /\ num_labels = 0
    /\ results = <<>>
    /\ it = 0
    /\ model_name = ""
    /\ processor = [model_name |-> "", to_lower |-> FALSE]
    /\ train_dataloader = [rows |-> <<>>, shuffle |-> FALSE, model_name |-> ""]
    /\ test_dataloader = [rows |-> <<>>, shuffle |-> FALSE, model_name |-> ""]
    /\ classifier = [model_name |-> "", num_labels |-> 0, fitted |-> FALSE]
    /\ train_time = <<0, 3600>>
    /\ preds = <<>>
    /\ accuracy = <<0, 0>>
    /\ class_report = <<0, 1>>
    /\ df_results = NoFrame
    /\ scraps = <<>>
    /\ pc = "split"
    /\ error = NoError
    /\ log = <<>>
    /\ prior = <<>>

\* Raise as a harness that isolates failures would have it: the error is
\* recorded and the loop goes on with the next identifier.
RaiseAndContinue(exc) ==
    /\ pc' = "for"
    /\ error' = [at |-> pc, pos |-> it, exc |-> exc]
    /\ log' = log

\* A step of the notebook raises: the exception leaves the cell and the run
\* ends there.
Raise(exc) ==
    /\ pc' = "raised"
    /\ error' = [at |-> pc, pos |-> it, exc |-> exc]
    /\ log' = log

\* A step of the notebook returns: it is logged and control moves on.
Return(next) ==
    /\ pc' = next
    /\ error' = error
    /\ log' = Append(log, <<it, pc>>)

\* ------------------------------------------------------------ split, sample

\* SplitFails letting a train size of 1.0 through.
SplitFailsAboveOne(ratio, n) ==
    \/ ratio[1] <= 0
    \/ ratio[1] > ratio[2]
    \/ ratio[1] * n < ratio[2]

\* train_test_split(df, train_size=TRAIN_SIZE, random_state=0): the test
\* rows are the first n_test of the permutation, the train rows the next
\* n_train; test_size complements train_size.
SplitFails(ratio, n) ==
    \/ ratio[1] <= 0
    \/ ratio[1] >= ratio[2]
    \/ Floor(ratio[1] * n, ratio[2]) = 0

SplitOf(dframe, ratio) ==
    LET n == Len(dframe)
        n_train == Floor(ratio[1] * n, ratio[2])
        n_test == n - n_train
        perm == Permutation0(n)
    IN  [train |-> [k \in 1..n_train |-> dframe[perm[n_test + k] + 1]],
         test |-> [k \in 1..n_test |-> dframe[perm[k] + 1]]]

Split ==
    /\ pc = "split"
    /\ IF SplitFails(TRAIN_SIZE, Len(df))
       THEN /\ Raise("ValueError")
            /\ UNCHANGED <<df_train, df_test>>
       ELSE /\ df_train' = SplitOf(df, TRAIN_SIZE).train
            /\ df_test' = SplitOf(df, TRAIN_SIZE).test
            /\ Return("sample_train")
    /\ UNCHANGED <<prior, params, df, encoder, results, loopvars, adapters, metrics,
                   report>>

\* SampleSize cutting the product down instead of rounding it.
SampleSizeFloor(frac, n) == (frac[1] * n) \div frac[2]

\* DataFrame.sample(frac=f): n = round(f * len) rows drawn without
\* replacement by the global numpy generator, which the notebook never
\* seeds: any arrangement of n distinct rows may come out.
SampleSize(frac, n) == Round(frac[1] * n, frac[2])

SampleFails(frac, n) ==
    \/ frac[1] < 0
    \/ SampleSize(frac, n) > n

Samples(dframe, frac) ==
    {[k \in 1..SampleSize(frac, Len(dframe)) |-> dframe[s[k]]] :
        s \in Arrangements(SampleSize(frac, Len(dframe)), Len(dframe))}

SampleTrain ==
    /\ pc = "sample_train"
    /\ IF SampleFails(TRAIN_DATA_FRACTION, Len(df_train))
       THEN /\ Raise("ValueError")
            /\ UNCHANGED df_train
       ELSE /\ \E s \in Samples(df_train, TRAIN_DATA_FRACTION) :
                   df_train' = ResetIndex(s)
            /\ Return("sample_test")
    /\ UNCHANGED <<prior, params, df, df_test, encoder, results, loopvars, adapters,
                   metrics, report>>

SampleTest ==
    /\ pc = "sample_test"
    /\ IF SampleFails(TEST_DATA_FRACTION, Len(df_test))
       THEN /\ Raise("ValueError")
            /\ UNCHANGED df_test
       ELSE /\ \E s \in Samples(df_test, TEST_DATA_FRACTION) :
                   df_test' = ResetIndex(s)
            /\ Return("fit_transform")
    /\ UNCHANGED <<prior, params, df, df_train, encoder, results, loopvars, adapters,
                   metrics, report>>

\* ----------------------------------------------------------- label encoder

\* LabelEncoder.fit: classes_ holds the distinct labels, sorted.
Fit(labels) == SelectSeq(GenreOrder, LAMBDA g : g \in labels)

\* CodeOf counting the places of classes_ from 1.
CodeOfOneBased(g, classes) == CHOOSE k \in 1..Len(classes) : classes[k] = g

\* The code of a label of classes_: its 0-based place.
CodeOf(g, classes) == (CHOOSE k \in 1..Len(classes) : classes[k] = g) - 1

\* LabelEncoder.transform raises ValueError ("y contains previously unseen
\* labels") when a label is not in classes_.
TransformFails(dframe, classes) ==
    \E g \in Genres(dframe) : g \notin Range(classes)

Transform(dframe, classes) ==
    [k \in DOMAIN dframe |->
        [dframe[k] EXCEPT !.genre = CodeOf(dframe[k].genre, classes)]]

\* FitTransform fitting the encoder on the labels of both samples.
FitTransformBoth ==
    /\ pc = "fit_transform"
    /\ classes_' = Fit(Genres(df_train) \cup Genres(df_test))
    /\ df_train' = Transform(df_train, Fit(Genres(df_train) \cup Genres(df_test)))
    /\ Return("transform")
    /\ UNCHANGED <<prior, params, df, df_test, num_labels, results, loopvars,
                   adapters, metrics, report>>

\* df_train[LABEL_COL] = label_encoder.fit_transform(df_train[LABEL_COL])
FitTransform ==
    /\ pc = "fit_transform"
    /\ classes_' = Fit(Genres(df_train))
    /\ df_train' = Transform(df_train, Fit(Genres(df_train)))
    /\ Return("transform")
    /\ UNCHANGED <<prior, params, df, df_test, num_labels, results, loopvars,
                   adapters, metrics, report>>

\* df_test[LABEL_COL] = label_encoder.transform(df_test[LABEL_COL])
TransformTest ==
    /\ pc = "transform"
    /\ IF TransformFails(df_test, classes_)
       THEN /\ Raise("ValueError")
            /\ UNCHANGED df_test
       ELSE /\ df_test' = Transform(df_test, classes_)
            /\ Return("num_labels")
    /\ UNCHANGED <<prior, params, df, df_train, encoder, results, loopvars,
                   adapters, metrics, report>>

\* num_labels = len(np.unique(df_train[LABEL_COL]))
NumLabels ==
    /\ pc = "num_labels"
    /\ num_labels' = Cardinality(Genres(df_train))
    /\ Return("results")
    /\ UNCHANGED <<prior, params, frames, classes_, results, loopvars, adapters,
                   metrics, report>>

\* ---------------------------------------------------------- benchmark loop

\* The results dict keeps its keys in insertion order: a list of items.
Keys(d) == [k \in DOMAIN d |-> d[k].key]

HasKey(d, key) == \E k \in DOMAIN d : d[k].key = key

Get(d, key) == d[CHOOSE k \in DOMAIN d : d[k].key = key].value

\* DictSet storing one shared record object under every key: each
\* assignment shows in all the records.
DictSetShared(d, key, value) ==
    IF HasKey(d, key)
    THEN [k \in DOMAIN d |-> [key |-> d[k].key, value |-> value]]
    ELSE [k \in DOMAIN d |-> [key |-> d[k].key, value |-> value]]
            \o <<[key |-> key, value |-> value]>>

\* DictSet putting a new key in front of the others.
DictSetFront(d, key, value) ==
    IF HasKey(d, key)
    THEN [k \in DOMAIN d |->
             IF d[k].key = key THEN [key |-> key, value |-> value] ELSE d[k]]
    ELSE <<[key |-> key, value |-> value]>> \o d

\* d[key] = value: a new key is appended, a present key keeps its place and
\* takes the new value.
DictSet(d, key, value) ==
    IF HasKey(d, key)
    THEN [k \in DOMAIN d |->
             IF d[k].key = key THEN [key |-> key, value |-> value] ELSE d[k]]
    ELSE Append(d, [key |-> key, value |-> value])

\* model_name.endswith("uncased")
EndsWithUncased(name) == name \in {"distilbert-base-uncased"}

\* results = {}
ResultsInit ==
    /\ pc = "results"
    /\ results' = <<>>
    /\ Return("for")
    /\ UNCHANGED <<prior, params, frames, encoder, loopvars, adapters, metrics,
                   report>>

\* ForNext leaving the loop one identifier early (MODEL_NAMES[:-1]).
ForNextShort ==
    /\ pc = "for"
    /\ IF it < Len(MODEL_NAMES) - 1
       THEN /\ it' = it + 1
            /\ model_name' = MODEL_NAMES[it + 1]
            /\ pc' = "processor"
            /\ log' = Append(log, <<it + 1, "for">>)
       ELSE /\ pc' = "df_results"
            /\ log' = log
            /\ UNCHANGED loopvars
    /\ error' = error
    /\ UNCHANGED <<prior, params, frames, encoder, results, adapters, metrics,
                   report>>

\* for model_name in MODEL_NAMES: the next identifier, or the end of the
\* loop and of its cell.
ForNext ==
    /\ pc = "for"
    /\ IF it < Len(MODEL_NAMES)
       THEN /\ it' = it + 1
            /\ model_name' = MODEL_NAMES[it + 1]
            /\ pc' = "processor"
            /\ log' = Append(log, <<it + 1, "for">>)
       ELSE /\ pc' = "df_results"
            /\ log' = log
            /\ UNCHANGED loopvars
    /\ error' = error
    /\ UNCHANGED <<prior, params, frames, encoder, results, adapters, metrics,
                   report>>

\* processor = Processor(model_name=..., to_lower=..., cache_dir=...)
NewProcessor ==
    /\ pc = "processor"
    /\ \/ /\ Raise("AdapterError")
          /\ UNCHANGED processor
       \/ /\ processor' = [model_name |-> model_name,
                           to_lower |-> EndsWithUncased(model_name)]
          /\ Return("train_dataloader")
    /\ UNCHANGED <<prior, params, frames, encoder, results, loopvars,
                   train_dataloader, test_dataloader, classifier, metrics,
                   report>>

\* TrainDataloader going on to the classifier with no test dataloader built.
TrainDataloaderOnly ==
    /\ pc = "train_dataloader"
    /\ \/ /\ Raise("AdapterError")
          /\ UNCHANGED train_dataloader
       \/ /\ train_dataloader' = [rows |-> df_train, shuffle |-> TRUE,
                                  model_name |-> processor.model_name]
          /\ Return("classifier")
    /\ UNCHANGED <<prior, params, frames, encoder, results, loopvars, processor,
                   test_dataloader, classifier, metrics, report>>

\* train_dataloader = processor.create_dataloader_from_df(df_train, ...,
\* shuffle=True)
TrainDataloader ==
    /\ pc = "train_dataloader"
    /\ \/ /\ Raise("AdapterError")
          /\ UNCHANGED train_dataloader
       \/ /\ train_dataloader' = [rows |-> df_train, shuffle |-> TRUE,
                                  model_name |-> processor.model_name]
          /\ Return("test_dataloader")
    /\ UNCHANGED <<prior, params, frames, encoder, results, loopvars, processor,
                   test_dataloader, classifier, metrics, report>>

\* test_dataloader = processor.create_dataloader_from_df(df_test, ...,
\* shuffle=False)
TestDataloader ==
    /\ pc = "test_dataloader"
    /\ \/ /\ Raise("AdapterError")
          /\ UNCHANGED test_dataloader
       \/ /\ test_dataloader' = [rows |-> df_test, shuffle |-> FALSE,
                                 model_name |-> processor.model_name]
          /\ Return("classifier")
    /\ UNCHANGED <<prior, params, frames, encoder, results, loopvars, processor,
                   train_dataloader, classifier, metrics, report>>

\* NewClassifier keeping the classifier at hand when it was built for the
\* same identifier.
NewClassifierReused ==
    /\ pc = "classifier"
    /\ \/ /\ Raise("AdapterError")
          /\ UNCHANGED classifier
       \/ /\ classifier' = IF classifier.model_name = model_name
                            THEN classifier
                            ELSE [model_name |-> model_name,
                                  num_labels |-> num_labels, fitted |-> FALSE]
          /\ Return("fit")
    /\ UNCHANGED <<prior, params, frames, encoder, results, loopvars, processor,
                   train_dataloader, test_dataloader, metrics, report>>

\* classifier = SequenceClassifier(model_name=..., num_labels=num_labels,
\* cache_dir=...)
NewClassifier ==
    /\ pc = "classifier"
    /\ \/ /\ Raise("AdapterError")
          /\ UNCHANGED classifier
       \/ /\ classifier' = [model_name |-> model_name,
                            num_labels |-> num_labels, fitted |-> FALSE]
          /\ Return("fit")
    /\ UNCHANGED <<prior, params, frames, encoder, results, loopvars, processor,
                   train_dataloader, test_dataloader, metrics, report>>

\* with Timer() as t: classifier.fit(train_dataloader, ...)
\* train_time = t.interval / 3600
FitClassifier ==
    /\ pc = "fit"
    /\ \/ /\ Raise("AdapterError")
          /\ UNCHANGED <<classifier, train_time>>
       \/ /\ classifier' = [classifier EXCEPT !.fitted = TRUE]
          /\ \E interval \in Intervals : train_time' = <<interval, 3600>>
          /\ Return("predict")
    /\ UNCHANGED <<prior, params, frames, encoder, results, loopvars, processor,
                   train_dataloader, test_dataloader, preds, accuracy,
                   class_report, report>>

\* The label codes a classifier may predict for the rows of a dataloader:
\* the true codes, or one code for every row.
Predictions(rows, n_labels) ==
    {[k \in DOMAIN rows |-> rows[k].genre]}
        \cup {[k \in DOMAIN rows |-> c] : c \in 0..(n_labels - 1)}

\* Predict followed by a stray continue: the next identifier begins while
\* this one is neither evaluated nor failed.
PredictContinue ==
    /\ pc = "predict"
    /\ \/ /\ Raise("AdapterError")
          /\ UNCHANGED preds
       \/ /\ preds' \in Predictions(test_dataloader.rows,
                                    classifier.num_labels)
          /\ Return("for")
    /\ UNCHANGED <<prior, params, frames, encoder, results, loopvars, adapters,
                   train_time, accuracy, class_report, report>>

\* preds = classifier.predict(test_dataloader, ...)
Predict ==
    /\ pc = "predict"
    /\ \/ /\ Raise("AdapterError")
          /\ UNCHANGED preds
       \/ /\ preds' \in Predictions(test_dataloader.rows,
                                    classifier.num_labels)
          /\ Return("eval")
    /\ UNCHANGED <<prior, params, frames, encoder, results, loopvars, adapters,
                   train_time, accuracy, class_report, report>>

\* accuracy_score(y_true, y_pred): the fraction of equal places.
AccuracyScore(y_true, y_pred) ==
    <<Cardinality({k \in DOMAIN y_true : y_true[k] = y_pred[k]}),
      Len(y_true)>>

\* The F1 of class c: 2tp / (2tp + fp + fn).
F1(y_true, y_pred, c) ==
    LET tp == Cardinality({k \in DOMAIN y_true :
                              y_true[k] = c /\ y_pred[k] = c})
        fp == Cardinality({k \in DOMAIN y_true :
                              y_true[k] # c /\ y_pred[k] = c})
        fn == Cardinality({k \in DOMAIN y_true :
                              y_true[k] = c /\ y_pred[k] # c})
    IN  <<2 * tp, 2 * tp + fp + fn>>

RECURSIVE SumF1(_, _, _)
SumF1(y_true, y_pred, c) ==
    IF c = 0 THEN <<0, 1>>
    ELSE LET s == SumF1(y_true, y_pred, c - 1)
             f == F1(y_true, y_pred, c - 1)
         IN  <<s[1] * f[2] + f[1] * s[2], s[2] * f[2]>>

\* class_report["macro avg"]["f1-score"]: the mean of the classes' F1.
MacroF1(y_true, y_pred, n_classes) ==
    LET s == SumF1(y_true, y_pred, n_classes)
    IN  <<s[1], s[2] * n_classes>>

\* classification_report(..., target_names=label_encoder.classes_) raises
\* ValueError when the labels of y_true and y_pred are not as many as the
\* target names.
ReportFails(y_true, y_pred, target_names) ==
    Cardinality(Range(y_true) \cup Range(y_pred)) # Len(target_names)

TestCodes == [k \in DOMAIN df_test |-> df_test[k].genre]

\* target_names=label_encoder.classes_: the report names the code c by
\* classes_[c], the label inverse_transform gives for it.
TargetName(code, classes) == classes[code + 1]

\* accuracy = accuracy_score(df_test[LABEL_COL], preds)
\* class_report = classification_report(df_test[LABEL_COL], preds, ...)
Eval ==
    /\ pc = "eval"
    /\ IF ReportFails(TestCodes, preds, classes_)
       THEN /\ Raise("ValueError")
            /\ accuracy' = AccuracyScore(TestCodes, preds)
            /\ UNCHANGED class_report
       ELSE /\ accuracy' = AccuracyScore(TestCodes, preds)
            /\ class_report' = MacroF1(TestCodes, preds, Len(classes_))
            /\ Return("save")
    /\ UNCHANGED <<prior, params, frames, encoder, results, loopvars, adapters,
                   train_time, preds, report>>

ResultRecord(acc, f1, time) ==
    ("accuracy" :> acc) @@ ("f1-score" :> f1) @@ ("time(hrs)" :> time)

\* results[model_name] = {"accuracy": ..., "f1-score": ..., "time(hrs)": ...}
SaveResults ==
    /\ pc = "save"
    /\ results' = DictSet(results, model_name,
                          ResultRecord(accuracy, class_report, train_time))
    /\ Return("for")
    /\ UNCHANGED <<prior, params, frames, encoder, loopvars, adapters, metrics,
                   report>>

\* ------------------------------------------------------------------ report

ResultIndex == <<"accuracy", "f1-score", "time(hrs)">>

\* pd.DataFrame(results): one column for each key, in the order of the
\* dict, one row for each field of the records.
DataFrame(d) ==
    LET index == IF d = <<>> THEN <<>> ELSE ResultIndex
    IN  [columns |-> Keys(d),
         index |-> index,
         values |-> [r \in DOMAIN index |->
                        [c \in DOMAIN d |-> d[c].value[index[r]]]]]

\* df_results = pd.DataFrame(results)
BuildReport ==
    /\ pc = "df_results"
    /\ df_results' = DataFrame(results)
    /\ pc' = "glue_accuracy"
    /\ error' = error
    /\ log' = Append(log, <<0, "df_results">>)
    /\ UNCHANGED <<prior, params, frames, encoder, results, loopvars, adapters,
                   metrics, scraps>>

RECURSIVE SumRow(_, _)
SumRow(row, n) ==
    IF n = 0 THEN <<0, 1>>
    ELSE LET s == SumRow(row, n - 1)
         IN  <<s[1] * row[n][2] + row[n][1] * s[2], s[2] * row[n][2]>>

\* Series.mean()
Mean(row) ==
    LET s == SumRow(row, Len(row))
    IN  <<s[1], s[2] * Len(row)>>

\* df_results.iloc[r, :] raises IndexError on a frame with no such row.
\* sb.glue("accuracy", df_results.iloc[0, :].mean())
GlueAccuracy ==
    /\ pc = "glue_accuracy"
    /\ IF Len(df_results.index) < 1
       THEN /\ pc' = "raised"
            /\ error' = [at |-> pc, pos |-> 0, exc |-> "IndexError"]
            /\ log' = log
            /\ UNCHANGED scraps
       ELSE /\ scraps' = Append(scraps, [name |-> "accuracy",
                                         data |-> Mean(df_results.values[1])])
            /\ pc' = "glue_f1"
            /\ error' = error
            /\ log' = Append(log, <<0, "glue_accuracy">>)
    /\ UNCHANGED <<prior, params, frames, encoder, results, loopvars, adapters,
                   metrics, df_results>>

\* sb.glue("f1", df_results.iloc[1, :].mean())
GlueF1 ==
    /\ pc = "glue_f1"
    /\ IF Len(df_results.index) < 2
       THEN /\ pc' = "raised"
            /\ error' = [at |-> pc, pos |-> 0, exc |-> "IndexError"]
            /\ log' = log
            /\ UNCHANGED scraps
       ELSE /\ scraps' = Append(scraps, [name |-> "f1",
                                         data |-> Mean(df_results.values[2])])
            /\ pc' = "done"
            /\ error' = error
            /\ log' = Append(log, <<0, "glue_f1">>)
    /\ UNCHANGED <<prior, params, frames, encoder, results, loopvars, adapters,
                   metrics, df_results>>

Next ==
    \/ Split
    \/ SampleTrain
    \/ SampleTest
    \/ FitTransform
    \/ TransformTest
    \/ NumLabels
    \/ ResultsInit
    \/ ForNext
    \/ NewProcessor
    \/ TrainDataloader
    \/ TestDataloader
    \/ NewClassifier
    \/ FitClassifier
    \/ Predict
    \/ Eval
    \/ SaveResults
    \/ BuildReport
    \/ GlueAccuracy
    \/ GlueF1

Spec == Init /\ [][Next]_vars

\* ------------------------------------------------------------ a second run

\* The notebook is run again on the same table with the same parameters
\* (restart and run all): every name is unbound again.  prior keeps the
\* samples the earlier run drew, for comparison.
Rerun ==
    /\ pc = "fit_transform"
    /\ prior = <<>>
    /\ prior' = Append(prior, [df_train |-> df_train, df_test |-> df_test])
    /\ df_train' = <<>>
    /\ df_test' = <<>>
    /\ pc' = "split"
    /\ log' = <<>>
    /\ UNCHANGED <<params, df, encoder, results, loopvars, adapters, metrics,
                   report, error>>

NextResample ==
    \/ Split
    \/ SampleTrain
    \/ SampleTest
    \/ Rerun

SpecResample == Init /\ [][NextResample]_vars

\* -------------------------------------------------------------- properties

Positions == 1..Len(MODEL_NAMES)

\* The steps of one iteration of the loop, in the order of the cell.
LoopSteps ==
    <<"for", "processor", "train_dataloader", "test_dataloader",
      "classifier", "fit", "predict", "eval", "save">>

\* The calls into the model wrappers (Processor, SequenceClassifier).
AdapterSteps ==
    {"processor", "train_dataloader", "test_dataloader", "classifier",
     "fit", "predict"}

Done(n, step) == <<n, step>> \in Range(log)

\* The steps that returned for the identifier at position n, in order.
StepsOf(n) ==
    LET evs == SelectSeq(log, LAMBDA e : e[1] = n)
    IN  [k \in DOMAIN evs |-> evs[k][2]]

StepsBefore(step) ==
    SubSeq(LoopSteps, 1, (CHOOSE k \in DOMAIN LoopSteps : LoopSteps[k] = step) - 1)

IsPrefix(s, t) == Len(s) <= Len(t) /\ \A k \in DOMAIN s : s[k] = t[k]

RECURSIVE FirstOccurrences(_)
FirstOccurrences(s) ==
    IF s = <<>> THEN <<>>
    ELSE LET d == FirstOccurrences(SubSeq(s, 1, Len(s) - 1))
         IN  IF s[Len(s)] \in Range(d) THEN d ELSE Append(d, s[Len(s)])

FailedAt(n) == n >= 1 /\ error # NoError /\ error.pos = n

\* The state of the identifier at position n, read from what has run.
ModelState(n) ==
    IF FailedAt(n) THEN "Failed"
    ELSE IF Done(n, "save") THEN "Evaluated"
    ELSE IF Done(n, "fit") THEN "Predicting"
    ELSE IF Done(n, "test_dataloader") THEN "Training"
    ELSE IF Done(n, "for") THEN "Preprocessing"
    ELSE "Pending"

RunEnded == pc \in {"done", "raised"}

AdapterFailed == error.at \in AdapterSteps

C1_AbortState ==
    AdapterFailed =>
        /\ pc = "raised"
        /\ error.pos = it
        /\ \A e \in Range(log) : e[1] <= it
        /\ StepsOf(it) = StepsBefore(error.at)
        /\ Keys(results) = FirstOccurrences(SubSeq(MODEL_NAMES, 1, it - 1))
        /\ df_results = NoFrame
        /\ scraps = <<>>

ReportBuilt == Done(0, "df_results")

Active == {"Preprocessing", "Training", "Predicting"}

\* C3: the identifier at position n+1 has not left Pending unless the one at
\* position n is Evaluated or Failed, and at most one identifier is in
\* Preprocessing, Training or Predicting.
C3_Sequential ==
    /\ \A n \in Positions :
          (n > 1 /\ ModelState(n) # "Pending")
             => ModelState(n - 1) \in {"Evaluated", "Failed"}
    /\ Cardinality({n \in Positions : ModelState(n) \in Active}) <= 1

C3_Witness ==
    \E n \in Positions :
        /\ n > 1
        /\ ModelState(n) = "Training"
        /\ ModelState(n - 1) = "Evaluated"

\* C4: the steps that have run for an identifier are a prefix of for,
\* processor, train dataloader, test dataloader, classifier, fit, predict,
\* eval, save, each once and in this order; an Evaluated identifier has run
\* them all, and the results hold a record only for an identifier that has.
C4_Lifecycle ==
    /\ \A n \in Positions :
          /\ IsPrefix(StepsOf(n), LoopSteps)
          /\ ModelState(n) = "Evaluated" => StepsOf(n) = LoopSteps
    /\ \A k \in DOMAIN results :
          \E n \in Positions :
             MODEL_NAMES[n] = results[k].key /\ StepsOf(n) = LoopSteps
    /\ pc = "fit" =>
          /\ train_dataloader.model_name = model_name
          /\ test_dataloader.model_name = model_name
    /\ pc = "predict" => classifier.fitted /\ classifier.model_name = model_name

C4_Witness ==
    \E n \in Positions :
        /\ ModelState(n) = "Evaluated"
        /\ HasKey(results, MODEL_NAMES[n])
        /\ pc = "for"

SavedPositions ==
    LET evs == SelectSeq(log, LAMBDA e : e[2] = "save")
    IN  [k \in DOMAIN evs |-> evs[k][1]]

BegunPositions ==
    LET evs == SelectSeq(log, LAMBDA e : e[2] = "for")
    IN  [k \in DOMAIN evs |-> evs[k][1]]

\* C5: the identifiers are begun and saved in the order of MODEL_NAMES, the
\* keys of the results follow that order (a repeated identifier keeps the
\* place of its first occurrence), and the columns of the table are the keys
\* of the results in the same order, whatever the training times.
C5_Order ==
    /\ BegunPositions = [k \in 1..it |-> k]
    /\ SavedPositions = [k \in 1..Len(SavedPositions) |-> k]
    /\ Keys(results)
          = FirstOccurrences([k \in DOMAIN SavedPositions |->
                                 MODEL_NAMES[SavedPositions[k]]])
    /\ ReportBuilt => df_results.columns = Keys(results)

C5_Witness ==
    /\ ReportBuilt
    /\ Len(results) = 2
    /\ Keys(results) = MODEL_NAMES
    /\ results[1].value["time(hrs)"][1] > results[2].value["time(hrs)"][1]

\* C6 as stated: a record of the results has the same value in every later
\* state.
C6_NeverMutated ==
    [][\A k \in DOMAIN results :
          /\ HasKey(results', results[k].key)
          /\ Get(results', results[k].key) = results[k].value]_vars

DistinctNames ==
    \A a, b \in Positions : a # b => MODEL_NAMES[a] # MODEL_NAMES[b]

\* C6, amended: a record keeps its key and its place, and its value changes
\* only when a later occurrence of the same identifier in MODEL_NAMES is
\* saved, which replaces it; with pairwise distinct identifiers no record
\* ever changes.
C6_ReplacedOnlyByRepeat ==
    [][\A k \in DOMAIN results :
          /\ k \in DOMAIN results'
          /\ results'[k].key = results[k].key
          /\ results'[k].value # results[k].value =>
                /\ pc = "save"
                /\ model_name = results[k].key
                /\ \E j \in 1..(it - 1) : MODEL_NAMES[j] = model_name
          /\ DistinctNames => results'[k] = results[k]]_vars

C6_Witness ==
    \E j, n \in Positions :
        /\ j < n
        /\ MODEL_NAMES[j] = MODEL_NAMES[n]
        /\ Done(j, "save")
        /\ Done(n, "save")
        /\ Len(results) = 1

RatioValid == 0 < TRAIN_SIZE[1] /\ TRAIN_SIZE[1] < TRAIN_SIZE[2]

FractionValid(frac) == 0 < frac[1] /\ frac[1] <= frac[2]

InvalidConfig ==
    \/ ~RatioValid
    \/ ~FractionValid(TRAIN_DATA_FRACTION)
    \/ ~FractionValid(TEST_DATA_FRACTION)
    \/ MODEL_NAMES = <<>>

FractionRejected(frac) == frac[1] < 0 \/ frac[1] > frac[2]

OrigGenre(sentence) == df[sentence].genre

Fitted == Done(0, "fit_transform")

UnseenTestLabel ==
    \E k \in DOMAIN df_test :
        OrigGenre(df_test[k].sentence1) \notin Range(classes_)

\* C8: the classes of the encoder are the labels of the training sample
\* alone; once a test label is not among them the transform of the test
\* sample raises, the run ends there with the test labels as they were and
\* with no step of the loop run; a transform that returned gave every test
\* row the code of its own label.
C8_UnseenLabelFatal ==
    /\ Fitted =>
          Range(classes_)
             = {OrigGenre(df_train[k].sentence1) : k \in DOMAIN df_train}
    /\ Done(0, "transform") =>
          \A k \in DOMAIN df_test :
             /\ df_test[k].genre \in 0..(Len(classes_) - 1)
             /\ classes_[df_test[k].genre + 1]
                   = OrigGenre(df_test[k].sentence1)
    /\ (Fitted /\ UnseenTestLabel) =>
          /\ pc \in {"transform", "raised"}
          /\ pc = "raised" =>
                error.at = "transform" /\ error.exc = "ValueError"
          /\ it = 0
          /\ \A e \in Range(log) :
                e[2] \in {"split", "sample_train", "sample_test",
                          "fit_transform"}
          /\ \A k \in DOMAIN df_test :
                df_test[k].genre = OrigGenre(df_test[k].sentence1)

C8_Witness ==
    /\ pc = "raised"
    /\ error.at = "transform"
    /\ UnseenTestLabel
    /\ MODEL_NAMES # <<>>

\* C9 as stated: a second run with the same table and parameters (sampling
\* fractions in (0,1]) draws the same train and test samples, row for row.
C9_SameSamples ==
    (/\ prior # <<>>
     /\ pc = "fit_transform"
     /\ FractionValid(TRAIN_DATA_FRACTION)
     /\ FractionValid(TEST_DATA_FRACTION)) =>
        /\ df_train = prior[1].df_train
        /\ df_test = prior[1].df_test

TrainSplit == SplitOf(df, TRAIN_SIZE).train

TestSplit == SplitOf(df, TRAIN_SIZE).test

\* The rows of sample are rows of split, none taken twice.
DistinctRowsOf(sample, split) ==
    /\ Sentences(sample) \subseteq Sentences(split)
    /\ Cardinality(Sentences(sample)) = Len(sample)

\* C10 as stated: a sample of a split of n rows with a fraction f of (0,1]
\* has floor(f * n) rows.
C10_FloorSize ==
    /\ (Done(0, "sample_train") /\ FractionValid(TRAIN_DATA_FRACTION)) =>
          /\ Len(df_train) = Floor(TRAIN_DATA_FRACTION[1] * Len(TrainSplit),
                                   TRAIN_DATA_FRACTION[2])
          /\ DistinctRowsOf(df_train, TrainSplit)
    /\ (Done(0, "sample_test") /\ FractionValid(TEST_DATA_FRACTION)) =>
          /\ Len(df_test) = Floor(TEST_DATA_FRACTION[1] * Len(TestSplit),
                                  TEST_DATA_FRACTION[2])
          /\ DistinctRowsOf(df_test, TestSplit)

\* C10, amended: the sample has round(f * n) rows, the product rounded to
\* the nearest integer and a half to the even one, all of them rows of the
\* split and none taken twice.
C10_RoundSize ==
    /\ (Done(0, "sample_train") /\ FractionValid(TRAIN_DATA_FRACTION)) =>
          /\ Len(df_train) = Round(TRAIN_DATA_FRACTION[1] * Len(TrainSplit),
                                   TRAIN_DATA_FRACTION[2])
          /\ DistinctRowsOf(df_train, TrainSplit)
    /\ (Done(0, "sample_test") /\ FractionValid(TEST_DATA_FRACTION)) =>
          /\ Len(df_test) = Round(TEST_DATA_FRACTION[1] * Len(TestSplit),
                                  TEST_DATA_FRACTION[2])
          /\ DistinctRowsOf(df_test, TestSplit)

C10_Witness ==
    /\ Done(0, "sample_train")
    /\ TRAIN_DATA_FRACTION = <<1, 2>>
    /\ Len(TrainSplit) = 3
    /\ Len(df_train) = 2

\* The labels of the rows of the training sample, as the table holds them.
TrainLabels == {OrigGenre(df_train[k].sentence1) : k \in DOMAIN df_train}

TrainCodes == [k \in DOMAIN df_train |-> df_train[k].genre]

Encode(L, classes) == [k \in DOMAIN L |-> CodeOf(L[k], classes)]

Decode(codes, classes) == [k \in DOMAIN codes |-> TargetName(codes[k], classes)]

\* C11: once the encoder is fitted, the codes of the training rows fill the
\* range 0..n-1 for the n distinct labels of the training sample; label to
\* code and code to label are inverse to each other between those labels and
\* that range; num_labels, once set, is n; and every sequence of fitted
\* labels, the training column among them, comes back element for element
\* when its codes are decoded through classes_ (the sequences are tried
\* when fit_transform returns: classes_ is not assigned again).
C11_Bijection ==
    /\ Fitted =>
          /\ Range(TrainCodes) = 0..(Cardinality(TrainLabels) - 1)
          /\ Len(classes_) = Cardinality(TrainLabels)
          /\ \A g \in TrainLabels :
                /\ g \in Range(classes_)
                /\ CodeOf(g, classes_) \in 0..(Len(classes_) - 1)
                /\ TargetName(CodeOf(g, classes_), classes_) = g
          /\ \A c \in 0..(Len(classes_) - 1) :
                /\ TargetName(c, classes_) \in TrainLabels
                /\ CodeOf(TargetName(c, classes_), classes_) = c
          /\ Decode(TrainCodes, classes_)
                = [k \in DOMAIN df_train |-> OrigGenre(df_train[k].sentence1)]
          /\ pc = "transform" =>
                \A L \in SeqsUpTo(Range(classes_), NumRows) :
                   Decode(Encode(L, classes_), classes_) = L
    /\ Done(0, "num_labels") => num_labels = Cardinality(TrainLabels)

\* Two labels, met in the training sample in the order opposite to their
\* codes.
C11_Witness ==
    /\ Done(0, "num_labels")
    /\ num_labels = 2
    /\ Len(df_train) >= 2
    /\ df_train[1].genre = 1
    /\ OrigGenre(df_train[1].sentence1) = "travel"
    /\ df_train[2].genre = 0

\* The loop has been entered: control is in its cell or after it.
InLoopOrAfter ==
    pc \in Range(LoopSteps) \cup {"df_results", "glue_accuracy", "glue_f1",
                                  "done"}

\* What an iteration holds at each of its steps is built in that iteration
\* for its identifier.
C12_OwnAdapters ==
    /\ pc \in {"train_dataloader", "test_dataloader", "classifier", "fit",
               "predict"} =>
          /\ Done(it, "processor")
          /\ processor = [model_name |-> MODEL_NAMES[it],
                          to_lower |-> EndsWithUncased(MODEL_NAMES[it])]
    /\ pc \in {"classifier", "fit", "predict"} =>
          /\ train_dataloader = [rows |-> df_train, shuffle |-> TRUE,
                                 model_name |-> MODEL_NAMES[it]]
          /\ test_dataloader = [rows |-> df_test, shuffle |-> FALSE,
                                model_name |-> MODEL_NAMES[it]]
    /\ pc = "fit" =>
          /\ Done(it, "classifier")
          /\ classifier = [model_name |-> MODEL_NAMES[it],
                           num_labels |-> num_labels, fitted |-> FALSE]
    /\ pc \in {"predict", "eval", "save"} =>
          /\ Done(it, "classifier")
          /\ classifier = [model_name |-> MODEL_NAMES[it],
                           num_labels |-> num_labels, fitted |-> TRUE]

\* C12: every iteration works with a preprocessor and a classifier built in
\* that iteration for its identifier, the classifier untrained when its
\* fitting begins; and from the entry of the loop on no step changes the
\* train sample, the test sample, the classes of the encoder or num_labels.
C12_Frame ==
    /\ []C12_OwnAdapters
    /\ [][InLoopOrAfter =>
             UNCHANGED <<df_train, df_test, classes_, num_labels>>]_vars

\* The second iteration of a list that names one identifier twice is about
\* to fit its classifier, the first one's record saved.
C12_Witness ==
    /\ it = 2
    /\ pc = "fit"
    /\ MODEL_NAMES[1] = MODEL_NAMES[2]
    /\ Len(results) = 1
    /\ Len(df_train) >= 2
    /\ num_labels = 2

====
